---- MODULE Spec2Model ----
(***************************************************************************)
(* Model of the GCP KMS RSA-PSS provider of relaycorp/kms-js               *)
(* (src/lib/gcp/GcpKmsRsaPssProvider.ts): the capability handlers          *)
(* onGenerateKey / onImportKey / onExportKey / onSign / onVerify, the      *)
(* remote signing exchange kmsSign and the public key retrieval            *)
(* retrieveKMSPublicKey with its one-shot retry.                           *)
(*                                                                         *)
(* Every invocation of a handler is a small process: it runs from its      *)
(* call up to its first await in one step, is resumed by the settlement    *)
(* of the promise it awaits (the remote call or the sleep), and ends      *)
(* "done" with a fulfilled or a rejected result, which the caller takes.   *)
(* The remote service and the network are the environment: a remote call  *)
(* may be answered by any response or rejected with any error.            *)
(***************************************************************************)
EXTENDS Integers, Sequences, FiniteSets, TLC

(***************************************************************************)
(* Bounds of the model.                                                    *)
(***************************************************************************)
\* Number of invocation slots (concurrent callers of one provider).
NumInv == 2
\* Longest plaintext handed to sign, in octets.
MaxDataLen == 1
\* Longest signature carried by a remote response, in octets.
MaxSigLen == 1
\* Granularity of the clock, in milliseconds per tick.
TickMs == 250

Procs == 1..NumInv

(***************************************************************************)
(* JavaScript values.  An optional value (a field that may be undefined)   *)
(* is the empty sequence when absent and a one-element sequence otherwise. *)
(***************************************************************************)
Undefined == <<>>
Some(v) == <<v>>
IsDefined(o) == Len(o) > 0
ValueOf(o) == o[1]

RECURSIVE SeqsUpTo(_, _)
\* All sequences over S of length at most n.
SeqsUpTo(S, n) ==
  IF n = 0 THEN {<<>>}
  ELSE LET shorter == SeqsUpTo(S, n - 1)
       IN shorter \cup {Append(s, x) : s \in shorter, x \in S}

(***************************************************************************)
(* Unsigned 32-bit integers are pairs <<high 16 bits, low 16 bits>>.       *)
(***************************************************************************)
RECURSIVE Xor16(_, _)
Xor16(a, b) ==
  IF a = 0 THEN b
  ELSE IF b = 0 THEN a
  ELSE 2 * Xor16(a \div 2, b \div 2) + (((a % 2) + (b % 2)) % 2)

Xor32(x, y) == <<Xor16(x[1], y[1]), Xor16(x[2], y[2])>>
Shr1(x) == <<x[1] \div 2, (x[2] \div 2) + ((x[1] % 2) * 32768)>>

\* The reflected Castagnoli polynomial 0x82F63B78 and 0xFFFFFFFF.
CRC32C_POLY == <<33526, 15224>>
ALL_ONES == <<65535, 65535>>

RECURSIVE Crc32cBits(_, _)
\* k rounds of the bitwise CRC step.
Crc32cBits(crc, k) ==
  IF k = 0 THEN crc
  ELSE Crc32cBits(IF crc[2] % 2 = 1 THEN Xor32(Shr1(crc), CRC32C_POLY) ELSE Shr1(crc),
                  k - 1)

RECURSIVE Crc32cUpdate(_, _)
Crc32cUpdate(crc, bytes) ==
  IF bytes = <<>> THEN crc
  ELSE Crc32cUpdate(Crc32cBits(Xor32(crc, <<0, Head(bytes)>>), 8), Tail(bytes))

\* calculate() of fast-crc32c: the CRC32C of a byte sequence, as a uint32.
calculateCRC32C(bytes) == Xor32(Crc32cUpdate(ALL_ONES, bytes), ALL_ONES)

(***************************************************************************)
(* Buffers.  A Buffer is a view (byteOffset, length) on an ArrayBuffer,    *)
(* which is a sequence of octets.                                          *)
(***************************************************************************)
Buffer(arrayBuffer, byteOffset, length) ==
  [buffer |-> arrayBuffer, byteOffset |-> byteOffset, length |-> length]

\* The octets a Buffer shows.
BufferBytes(buf) == SubSeq(buf.buffer, buf.byteOffset + 1, buf.byteOffset + buf.length)

\* Buffer.from(arrayBuffer): a view on the whole of the ArrayBuffer.
BufferFrom(arrayBuffer) == Buffer(arrayBuffer, 0, Len(arrayBuffer))

\* bufferToArrayBuffer (src/lib/utils/buffer.ts): a fresh ArrayBuffer
\* holding exactly the octets the Buffer shows.
bufferToArrayBuffer(buf) ==
  SubSeq(buf.buffer, buf.byteOffset + 1, buf.byteOffset + buf.length)

(***************************************************************************)
(* Errors.  Every error object has a constructor name, a message, an       *)
(* optional cause and the optional structured detail list (statusDetails)  *)
(* that errors of the remote service may carry.                            *)
(***************************************************************************)
Error(name, message, cause, statusDetails) ==
  [name |-> name, message |-> message, cause |-> cause, statusDetails |-> statusDetails]

\* new KmsError(message) and new KmsError(message, { cause }) (src/lib/KmsError.ts).
KmsError(message) == Error("KmsError", message, Undefined, Undefined)
KmsErrorWithCause(message, cause) == Error("KmsError", message, Some(cause), Undefined)

\* The TypeError the runtime throws when a property of undefined is read.
TypeError(message) == Error("TypeError", message, Undefined, Undefined)

\* The settlement of a promise.
Fulfilled(value) == [status |-> "fulfilled", value |-> Some(value), reason |-> Undefined]
Rejected(reason) == [status |-> "rejected", value |-> Undefined, reason |-> Some(reason)]
IsFulfilled(settlement) == settlement.status = "fulfilled"
IsRejected(settlement) == settlement.status = "rejected"

\* wrapGCPCallError(callPromise, errorMessage) (src/lib/gcp/kmsUtils.ts):
\* what the call resolved to, or a KmsError with the given message whose
\* cause is what the call was rejected with.
wrapGCPCallError(settlement, errorMessage) ==
  IF IsRejected(settlement)
  THEN Rejected(KmsErrorWithCause(errorMessage, ValueOf(settlement.reason)))
  ELSE settlement

(***************************************************************************)
(* Keys and algorithms.                                                    *)
(***************************************************************************)
\* See: https://cloud.google.com/kms/docs/algorithms#rsa_signing_algorithms
SUPPORTED_SALT_LENGTHS == {256 \div 8, 512 \div 8}

\* this.hashAlgorithms of the provider.
hashAlgorithms == {"SHA-256", "SHA-512"}

\* The key versions of the remote service the model knows.
KeyPaths == {"keyRings/r/cryptoKeys/k/cryptoKeyVersions/1",
             "keyRings/r/cryptoKeys/k/cryptoKeyVersions/2"}

\* new GcpKmsRsaPssPrivateKey(kmsKeyVersionPath, hashingAlgorithm, provider):
\* there is one provider, so the back-reference is left out.
GcpKmsRsaPssPrivateKey(kmsKeyVersionPath, hashingAlgorithm) ==
  [constructor |-> "GcpKmsRsaPssPrivateKey",
   kmsKeyVersionPath |-> Some(kmsKeyVersionPath),
   hashingAlgorithm |-> hashingAlgorithm]

\* A key that is no remote key handle: a local private key (as made by
\* generateRSAKeyPair), and a plain object that only looks like a handle.
LocalKeys ==
  {[constructor |-> "CryptoKey", kmsKeyVersionPath |-> Undefined,
    hashingAlgorithm |-> "SHA-256"]}
  \cup {[constructor |-> "Object", kmsKeyVersionPath |-> Some(path),
         hashingAlgorithm |-> "SHA-256"] : path \in KeyPaths}

\* The hashing algorithms a key handle may be constructed with
\* (HashingAlgorithm of src/lib/algorithms.ts).
HashingAlgorithms == hashAlgorithms \cup {"SHA-384"}

RemoteKeys ==
  {GcpKmsRsaPssPrivateKey(path, hash) : path \in KeyPaths, hash \in HashingAlgorithms}

Keys == RemoteKeys \cup LocalKeys

\* The key taken for a handle when it carries a key version path.
HasKeyVersionPath(key) == IsDefined(key.kmsKeyVersionPath)

\* key instanceof GcpKmsRsaPssPrivateKey
IsGcpKmsRsaPssPrivateKey(key) == key.constructor = "GcpKmsRsaPssPrivateKey"

\* RsaPssParams, with salt lengths in and out of the supported set.
SaltLengths == SUPPORTED_SALT_LENGTHS \cup {0, 20, 48, 222}
Algorithms == {[name |-> "RSA-PSS", saltLength |-> n] : n \in SaltLengths}

KeyFormats == {"spki", "pkcs8", "jwk", "raw"}

\* The octets plaintexts and signatures are made of.
Octets == {1, 200}
Plaintexts == SeqsUpTo(Octets, MaxDataLen)

(***************************************************************************)
(* What the remote service can answer to asymmetricSign.                   *)
(***************************************************************************)
\* The octets of a signature; a truncated one may be empty.
SignatureOctets == SeqsUpTo(Octets, MaxSigLen)

\* A signature arrives as a Buffer, on an ArrayBuffer of its own or at an
\* offset of a larger one.
Signatures ==
  {Buffer(sig, 0, Len(sig)) : sig \in SignatureOctets}
  \cup {Buffer(<<0>> \o sig, 1, Len(sig)) : sig \in SignatureOctets}

\* The checksums a response may report, as the value of an Int64Value: the
\* checksum of any signature, zero, and null.
ReportedChecksums ==
  {Some(calculateCRC32C(sig)) : sig \in SignatureOctets} \cup {Some(<<0, 0>>), Undefined}

\* Number(value): the number itself, and 0 for null.
Number(value) == IF IsDefined(value) THEN ValueOf(value) ELSE <<0, 0>>

SignResponses ==
  [name : {Some(path) : path \in KeyPaths} \cup {Undefined},
   verifiedDataCrc32c : {Some(TRUE), Some(FALSE), Undefined},
   signature : Signatures,
   signatureCrc32c : {Some([value |-> value]) : value \in ReportedChecksums}
                     \cup {Undefined}]

\* Errors of the remote service and of the transport.
PendingViolation == [type |-> "KEY_PENDING_GENERATION"]
OtherViolation == [type |-> "KEY_DISABLED"]

RemoteErrors ==
  {Error("Error", "14 UNAVAILABLE", Undefined, details) :
     details \in {Undefined,
                  Some(<<>>),
                  Some(<<[violations |-> Some(<<OtherViolation>>)]>>),
                  Some(<<[violations |-> Some(<<PendingViolation>>)]>>),
                  Some(<<[violations |-> Some(<<>>)],
                         [violations |-> Some(<<OtherViolation, PendingViolation>>)]>>),
                  Some(<<[violations |-> Undefined]>>),
                  Some(<<[violations |-> Undefined],
                         [violations |-> Some(<<PendingViolation>>)]>>)}}

SignSettlements ==
  {Fulfilled(response) : response \in SignResponses}
  \cup {Rejected(err) : err \in RemoteErrors}

(***************************************************************************)
(* PEM to DER.                                                             *)
(***************************************************************************)
CharAt(str, i) == SubSeq(str, i, i)
Drop(str, n) == SubSeq(str, n + 1, Len(str))
StartsWith(str, prefix) == /\ Len(str) >= Len(prefix)
                           /\ SubSeq(str, 1, Len(prefix)) = prefix

Base64Alphabet == "ABCDEFGHIJKLMNOPQRSTUVWXYZabcdefghijklmnopqrstuvwxyz0123456789+/"
CharsOf(str) == {CharAt(str, i) : i \in 1..Len(str)}

\* The characters of the class [\w ] of the regular expression.
WordOrSpace == CharsOf(SubSeq(Base64Alphabet, 1, 62)) \cup {"_", " "}

RECURSIVE WordRun(_)
\* The length of the longest prefix of str made of [\w ] characters.
WordRun(str) ==
  IF Len(str) > 0 /\ CharAt(str, 1) \in WordOrSpace THEN 1 + WordRun(Drop(str, 1)) ELSE 0

RECURSIVE StripNewlines(_)
\* pemBuffer.toString().replace(/\n/g, ''): the markers left in the text.
StripNewlines(str) ==
  IF Len(str) = 0 THEN ""
  ELSE IF CharAt(str, 1) = "\n"
  THEN StripNewlines(Drop(str, 1))
  ELSE CharAt(str, 1) \o StripNewlines(Drop(str, 1))

RECURSIVE StripMarkers(_)
\* pemBuffer.toString().replace(/(-----[\w ]*-----|\n)/g, '')
StripMarkers(str) ==
  IF Len(str) = 0 THEN ""
  ELSE LET afterDashes == Drop(str, 5)
           afterWords == Drop(afterDashes, WordRun(afterDashes))
       IN IF StartsWith(str, "-----") /\ StartsWith(afterWords, "-----")
          THEN StripMarkers(Drop(afterWords, 5))
          ELSE IF CharAt(str, 1) = "\n"
          THEN StripMarkers(Drop(str, 1))
          ELSE CharAt(str, 1) \o StripMarkers(Drop(str, 1))

\* The value of a base64 character: the standard and the URL-safe alphabet.
Unbase64(c) ==
  IF c = "-" THEN 62
  ELSE IF c = "_" THEN 63
  ELSE (CHOOSE i \in 1..64 : CharAt(Base64Alphabet, i) = c) - 1

IsBase64Char(c) == c \in CharsOf(Base64Alphabet) \cup {"-", "_"}

RECURSIVE Sextets(_)
\* The values of the base64 characters of str up to its first "=", the
\* characters outside the alphabet skipped.
Sextets(str) ==
  IF Len(str) = 0 \/ CharAt(str, 1) = "=" THEN <<>>
  ELSE IF IsBase64Char(CharAt(str, 1))
  THEN <<Unbase64(CharAt(str, 1))>> \o Sextets(Drop(str, 1))
  ELSE Sextets(Drop(str, 1))

RECURSIVE OctetsOfSextets(_)
\* Groups of four sextets make three octets; a last group of three makes
\* two, of two makes one.
OctetsOfSextets(v) ==
  IF Len(v) < 2 THEN <<>>
  ELSE LET b1 == (v[1] * 4) + (v[2] \div 16)
           b2 == ((v[2] % 16) * 16) + (v[3] \div 4)
           b3 == ((v[3] % 4) * 64) + v[4]
       IN IF Len(v) = 2 THEN <<b1>>
          ELSE IF Len(v) = 3 THEN <<b1, b2>>
          ELSE <<b1, b2, b3>> \o OctetsOfSextets(SubSeq(v, 5, Len(v)))

\* Buffer.from(str, 'base64')
BufferFromBase64(str) == BufferFrom(OctetsOfSextets(Sextets(str)))

pemToDer(pemBuffer) == BufferFromBase64(StripMarkers(pemBuffer))

\* The PEM texts the remote service may return for a public key.
Pems == {"-----BEGIN PUBLIC KEY-----\nAAA=\n-----END PUBLIC KEY-----",
         "-----BEGIN PUBLIC KEY-----\nAQID\nyMg=\n-----END PUBLIC KEY-----"}

PublicKeyResponses == {[pem |-> Some(pem)] : pem \in Pems} \cup {[pem |-> Undefined]}

PublicKeySettlements ==
  {Fulfilled(response) : response \in PublicKeyResponses}
  \cup {Rejected(err) : err \in RemoteErrors}

(***************************************************************************)
(* The handlers, as functions of their inputs and of what the remote call  *)
(* settled with.                                                           *)
(***************************************************************************)
\* A handler that resolves to nothing where the code throws.
onVerifyResolves == Fulfilled(<<>>)

\* onGenerateKey, onImportKey, onVerify: the error thrown, whatever is passed.
onGenerateKey == Rejected(KmsError("Key generation is unsupported"))
onImportKey == Rejected(KmsError("Key import is unsupported"))
onVerify == Rejected(KmsError("Signature verification is unsupported"))

\* A range test where the code tests membership.
SaltLengthInRange(algorithm) == algorithm.saltLength <= 512 \div 8

\* SUPPORTED_SALT_LENGTHS.includes(algorithm.saltLength)
SaltLengthSupported(algorithm) == algorithm.saltLength \in SUPPORTED_SALT_LENGTHS

\* onSign up to the call of kmsSign: the error thrown, if any.
onSignValidation(algorithm, key) ==
  IF ~IsGcpKmsRsaPssPrivateKey(key)
  THEN Some(KmsError("Cannot sign with key of unsupported type (" \o key.constructor \o ")"))
  ELSE IF ~SaltLengthSupported(algorithm)
  THEN Some(KmsError("Unsupported salt length of " \o ToString(algorithm.saltLength)
                     \o " octets"))
  ELSE Undefined

\* The private key format alone refused.
OnlyPkcs8Unsupported(format) == format = "pkcs8"

\* format !== 'spki'
FormatUnsupported(format) == format # "spki"

\* onExportKey up to the call of retrieveKMSPublicKey: the error thrown, if any.
onExportKeyValidation(format, key) ==
  IF FormatUnsupported(format)
  THEN Some(KmsError("Private key cannot be exported"))
  ELSE IF ~IsGcpKmsRsaPssPrivateKey(key)
  THEN Some(KmsError("Key is not managed by KMS"))
  ELSE Undefined

\* kmsSign: the request passed to kmsClient.asymmetricSign.
asymmetricSignRequest(plaintext, key) ==
  [data |-> plaintext,
   dataCrc32c |-> [value |-> calculateCRC32C(BufferBytes(plaintext))],
   name |-> key.kmsKeyVersionPath,
   options |-> "KMS_REQUEST_OPTIONS"]

\* _retrieveKMSPublicKey: the request passed to kmsClient.getPublicKey.
getPublicKeyRequest(kmsKeyVersionName) ==
  [name |-> kmsKeyVersionName, maxRetries |-> 3, timeout |-> 300]

\* The echoed key path compared only when there is one.
WrongKeyVersionIfNamed(response, key) ==
  IsDefined(response.name) /\ response.name # key.kmsKeyVersionPath

\* response.name !== key.kmsKeyVersionPath
WrongKeyVersion(response, key) == response.name # key.kmsKeyVersionPath

\* response.verifiedDataCrc32c === false: an absent flag passes.
PlaintextExplicitlyUnverified(response) == response.verifiedDataCrc32c = Some(FALSE)

\* The flag not looked at.
PlaintextFlagUnchecked(response) == FALSE

\* !response.verifiedDataCrc32c
PlaintextUnverified(response) ==
  ~(IsDefined(response.verifiedDataCrc32c) /\ ValueOf(response.verifiedDataCrc32c))

\* The checksum taken over the whole ArrayBuffer under the signature.
SignatureChecksumOfArrayBuffer(response) ==
  calculateCRC32C(response.signature.buffer)
    # Number(ValueOf(response.signatureCrc32c).value)

\* The checksums not compared.
SignatureChecksumUnchecked(response) == FALSE

\* calculateCRC32C(signature) !== Number(response.signatureCrc32c!.value)
SignatureChecksumMismatch(response) ==
  calculateCRC32C(BufferBytes(response.signature))
    # Number(ValueOf(response.signatureCrc32c).value)

\* `${response.name}`
NameText(name) == IF IsDefined(name) THEN ValueOf(name) ELSE "undefined"

\* The rejection of the remote call passed on as it is.
signRequestUnwrapped(settlement) == settlement

\* kmsSign: the await of the remote call under wrapGCPCallError.
signRequest(settlement) == wrapGCPCallError(settlement, "KMS signature request failed")

\* The flag tested before the key path.
verifyResponseFlagFirst(response, key) ==
  IF PlaintextUnverified(response)
  THEN Rejected(KmsError("KMS failed to verify plaintext CRC32C checksum"))
  ELSE IF WrongKeyVersion(response, key)
  THEN Rejected(KmsError("KMS used the wrong key version ("
                         \o NameText(response.name) \o ")"))
  ELSE IF ~IsDefined(response.signatureCrc32c)
  THEN Rejected(TypeError("Cannot read properties of undefined (reading 'value')"))
  ELSE IF SignatureChecksumMismatch(response)
  THEN Rejected(KmsError("Signature CRC32C checksum does not match one received from KMS"))
  ELSE Fulfilled(bufferToArrayBuffer(response.signature))

\* kmsSign once it has the response: the three checks and the return.
verifyResponse(response, key) ==
  IF WrongKeyVersion(response, key)
  THEN Rejected(KmsError("KMS used the wrong key version ("
                         \o NameText(response.name) \o ")"))
  ELSE IF PlaintextUnverified(response)
  THEN Rejected(KmsError("KMS failed to verify plaintext CRC32C checksum"))
  ELSE IF ~IsDefined(response.signatureCrc32c)
  THEN Rejected(TypeError("Cannot read properties of undefined (reading 'value')"))
  ELSE IF SignatureChecksumMismatch(response)
  THEN Rejected(KmsError("Signature CRC32C checksum does not match one received from KMS"))
  ELSE Fulfilled(bufferToArrayBuffer(response.signature))

\* kmsSign from the settlement of the remote call on: what it settles with.
kmsSign(settlement, key) ==
  IF IsRejected(signRequest(settlement))
  THEN signRequest(settlement)
  ELSE verifyResponse(ValueOf(signRequest(settlement).value), key)

\* err.statusDetails ?? []
StatusDetailsOf(err) ==
  IF IsDefined(err.statusDetails) THEN ValueOf(err.statusDetails) ELSE <<>>

\* isKeyPendingCreation throws when a detail has no violation list to filter.
isKeyPendingCreationThrows(err) ==
  \E i \in DOMAIN StatusDetailsOf(err) : ~IsDefined(StatusDetailsOf(err)[i].violations)

\* Any error with structured details taken for a pending key.
AnyDetailedError(err) == Len(StatusDetailsOf(err)) > 0

\* isKeyPendingCreation, when it returns.
isKeyPendingCreation(err) ==
  \E i \in DOMAIN StatusDetailsOf(err) :
    LET violations == ValueOf(StatusDetailsOf(err)[i].violations)
    IN \E j \in DOMAIN violations : violations[j].type = "KEY_PENDING_GENERATION"

\* retrieveKMSPublicKey from the settlement of retrieveWhenReady on.
publicKeyResult(retrieved) ==
  LET wrapped == wrapGCPCallError(retrieved, "Failed to retrieve public key")
  IN IF IsRejected(wrapped) THEN wrapped
     ELSE IF ~IsDefined(ValueOf(wrapped.value))
     THEN Rejected(TypeError("Cannot read properties of undefined (reading 'toString')"))
     ELSE Fulfilled(bufferToArrayBuffer(pemToDer(ValueOf(ValueOf(wrapped.value)))))

\* _retrieveKMSPublicKey from the settlement of getPublicKey on: response.pem!
retrievedPem(settlement) ==
  IF IsRejected(settlement) THEN settlement
  ELSE [status |-> "fulfilled", value |-> Some(ValueOf(settlement.value).pem),
        reason |-> Undefined]

\* The first catch of retrieveWhenReady: whether the error leads to the retry.
RetryAfter(err) == ~isKeyPendingCreationThrows(err) /\ isKeyPendingCreation(err)

\* What the first catch of retrieveWhenReady throws when it does not retry.
firstAttemptError(err) ==
  IF isKeyPendingCreationThrows(err)
  THEN Rejected(TypeError("Cannot read properties of undefined (reading 'filter')"))
  ELSE Rejected(err)

\* sleep(500) of retrieveWhenReady, in milliseconds.
RETRY_DELAY_MS == 500

\* sleep(ms) (src/lib/utils/timing.ts) settles once ms milliseconds have
\* elapsed.
sleep(ms, elapsed) == elapsed >= ms

(***************************************************************************)
(* State.                                                                  *)
(***************************************************************************)
VARIABLES
  pc,                  \* where each invocation is
  call,                \* the operation invoked and its arguments
  result,              \* what the invocation settled with, once done
  asymmetricSignCalls, \* the requests the invocation passed to asymmetricSign
  signSettlement,      \* what its asymmetricSign call settled with
  getPublicKeyCalls,   \* the requests the invocation passed to getPublicKey
  publicKeySettlements,\* what its getPublicKey calls settled with, in order
  slept,               \* milliseconds its sleep has lasted (at most the delay)
  sleeps               \* the sleeps the invocation has begun

vars == <<pc, call, result, asymmetricSignCalls, signSettlement, getPublicKeyCalls,
          publicKeySettlements, slept, sleeps>>

Call(op, format, algorithm, key, data) ==
  [op |-> op, format |-> format, algorithm |-> algorithm, key |-> key, data |-> data]

\* The slot of an invocation nobody has made.
NoCall ==
  Call("none", "spki", [name |-> "RSA-PSS", saltLength |-> 0],
       [constructor |-> "CryptoKey", kmsKeyVersionPath |-> Undefined,
        hashingAlgorithm |-> "SHA-256"],
       <<>>)

Init ==
  /\ pc = [p \in Procs |-> "idle"]
  /\ call = [p \in Procs |-> NoCall]
  /\ result = [p \in Procs |-> Undefined]
  /\ asymmetricSignCalls = [p \in Procs |-> <<>>]
  /\ signSettlement = [p \in Procs |-> Undefined]
  /\ getPublicKeyCalls = [p \in Procs |-> <<>>]
  /\ publicKeySettlements = [p \in Procs |-> <<>>]
  /\ slept = [p \in Procs |-> 0]
  /\ sleeps = [p \in Procs |-> 0]

\* The invocation of p settles.
Settle(p, settlement) ==
  /\ pc' = [pc EXCEPT ![p] = "done"]
  /\ result' = [result EXCEPT ![p] = Some(settlement)]

(***************************************************************************)
(* The operations the provider rejects.                                    *)
(***************************************************************************)
OnGenerateKey(p, format, algorithm, key, data) ==
  /\ pc[p] = "idle"
  /\ call' = [call EXCEPT ![p] = Call("generateKey", format, algorithm, key, data)]
  /\ Settle(p, onGenerateKey)
  /\ UNCHANGED <<asymmetricSignCalls, signSettlement, getPublicKeyCalls,
                 publicKeySettlements, slept, sleeps>>

OnImportKey(p, format, algorithm, key, data) ==
  /\ pc[p] = "idle"
  /\ call' = [call EXCEPT ![p] = Call("importKey", format, algorithm, key, data)]
  /\ Settle(p, onImportKey)
  /\ UNCHANGED <<asymmetricSignCalls, signSettlement, getPublicKeyCalls,
                 publicKeySettlements, slept, sleeps>>

OnVerify(p, format, algorithm, key, data) ==
  /\ pc[p] = "idle"
  /\ call' = [call EXCEPT ![p] = Call("verify", format, algorithm, key, data)]
  /\ Settle(p, onVerify)
  /\ UNCHANGED <<asymmetricSignCalls, signSettlement, getPublicKeyCalls,
                 publicKeySettlements, slept, sleeps>>

(***************************************************************************)
(* sign.                                                                   *)
(***************************************************************************)
\* onSign and kmsSign up to the await of the remote call.
OnSign(p, algorithm, key, data) ==
  /\ pc[p] = "idle"
  /\ call' = [call EXCEPT ![p] = Call("sign", "spki", algorithm, key, data)]
  /\ IF IsDefined(onSignValidation(algorithm, key))
     THEN /\ Settle(p, Rejected(ValueOf(onSignValidation(algorithm, key))))
          /\ UNCHANGED asymmetricSignCalls
     ELSE /\ pc' = [pc EXCEPT ![p] = "asymmetricSign"]
          /\ asymmetricSignCalls' =
               [asymmetricSignCalls EXCEPT
                  ![p] = Append(@, asymmetricSignRequest(BufferFrom(data), key))]
          /\ UNCHANGED result
  /\ UNCHANGED <<signSettlement, getPublicKeyCalls, publicKeySettlements, slept, sleeps>>

\* The key kept in a field of the provider, which every invocation that
\* signs writes: the response is checked against the key of any of them.
AsymmetricSignSettlesSharedKey(p, settlement) ==
  /\ pc[p] = "asymmetricSign"
  /\ signSettlement' = [signSettlement EXCEPT ![p] = Some(settlement)]
  /\ \E q \in Procs :
       /\ pc[q] = "asymmetricSign"
       /\ Settle(p, kmsSign(settlement, call[q].key))
  /\ UNCHANGED <<call, asymmetricSignCalls, getPublicKeyCalls, publicKeySettlements,
                 slept, sleeps>>

\* The remote call settles and kmsSign runs to its end.
AsymmetricSignSettles(p, settlement) ==
  /\ pc[p] = "asymmetricSign"
  /\ signSettlement' = [signSettlement EXCEPT ![p] = Some(settlement)]
  /\ Settle(p, kmsSign(settlement, call[p].key))
  /\ UNCHANGED <<call, asymmetricSignCalls, getPublicKeyCalls, publicKeySettlements,
                 slept, sleeps>>

(***************************************************************************)
(* export.                                                                 *)
(***************************************************************************)
\* onExportKey and retrieveKMSPublicKey up to the await of the first attempt.
OnExportKey(p, format, key) ==
  /\ pc[p] = "idle"
  /\ call' = [call EXCEPT
                ![p] = Call("exportKey", format, NoCall.algorithm, key, <<>>)]
  /\ IF IsDefined(onExportKeyValidation(format, key))
     THEN /\ Settle(p, Rejected(ValueOf(onExportKeyValidation(format, key))))
          /\ UNCHANGED getPublicKeyCalls
     ELSE /\ pc' = [pc EXCEPT ![p] = "getPublicKey1"]
          /\ getPublicKeyCalls' =
               [getPublicKeyCalls EXCEPT
                  ![p] = Append(@, getPublicKeyRequest(key.kmsKeyVersionPath))]
          /\ UNCHANGED result
  /\ UNCHANGED <<asymmetricSignCalls, signSettlement, publicKeySettlements, slept, sleeps>>

\* The first attempt settles: the key is returned, the error is thrown, or
\* the sleep before the second attempt begins.
FirstAttemptSettles(p, settlement) ==
  /\ pc[p] = "getPublicKey1"
  /\ publicKeySettlements' = [publicKeySettlements EXCEPT ![p] = Append(@, settlement)]
  /\ IF IsFulfilled(settlement)
     THEN /\ Settle(p, publicKeyResult(retrievedPem(settlement)))
          /\ UNCHANGED <<slept, sleeps>>
     ELSE IF RetryAfter(ValueOf(settlement.reason))
     THEN /\ pc' = [pc EXCEPT ![p] = "sleep"]
          /\ slept' = [slept EXCEPT ![p] = 0]
          /\ sleeps' = [sleeps EXCEPT ![p] = @ + 1]
          /\ UNCHANGED result
     ELSE /\ Settle(p, publicKeyResult(firstAttemptError(ValueOf(settlement.reason))))
          /\ UNCHANGED <<slept, sleeps>>
  /\ UNCHANGED <<call, asymmetricSignCalls, signSettlement, getPublicKeyCalls>>

\* sleep(500) not awaited.
SleepNotAwaited(p) == TRUE

\* await sleep(500): the sleep of p has settled.
SleepOver(p) == sleep(RETRY_DELAY_MS, slept[p])

\* The sleep settles and the second attempt is made.
SecondAttempt(p) ==
  /\ pc[p] = "sleep"
  /\ SleepOver(p)
  /\ pc' = [pc EXCEPT ![p] = "getPublicKey2"]
  /\ getPublicKeyCalls' =
       [getPublicKeyCalls EXCEPT
          ![p] = Append(@, getPublicKeyRequest(call[p].key.kmsKeyVersionPath))]
  /\ UNCHANGED <<call, result, asymmetricSignCalls, signSettlement,
                 publicKeySettlements, slept, sleeps>>

\* The retry made a loop: a second attempt that fails as "pending
\* generation" sleeps again and is followed by a third.
SecondAttemptSettlesRetrying(p, settlement) ==
  /\ pc[p] = "getPublicKey2"
  /\ publicKeySettlements' = [publicKeySettlements EXCEPT ![p] = Append(@, settlement)]
  /\ IF /\ IsRejected(settlement)
        /\ RetryAfter(ValueOf(settlement.reason))
        /\ Len(getPublicKeyCalls[p]) < 3
     THEN /\ pc' = [pc EXCEPT ![p] = "sleep"]
          /\ slept' = [slept EXCEPT ![p] = 0]
          /\ sleeps' = [sleeps EXCEPT ![p] = @ + 1]
          /\ UNCHANGED result
     ELSE /\ Settle(p, publicKeyResult(retrievedPem(settlement)))
          /\ UNCHANGED <<slept, sleeps>>
  /\ UNCHANGED <<call, asymmetricSignCalls, signSettlement, getPublicKeyCalls>>

\* The second attempt settles: the key is returned or the error is thrown.
SecondAttemptSettles(p, settlement) ==
  /\ pc[p] = "getPublicKey2"
  /\ publicKeySettlements' = [publicKeySettlements EXCEPT ![p] = Append(@, settlement)]
  /\ Settle(p, publicKeyResult(retrievedPem(settlement)))
  /\ UNCHANGED <<call, asymmetricSignCalls, signSettlement, getPublicKeyCalls, slept, sleeps>>

\* Time passes for the invocations that sleep.
Tick ==
  /\ \E p \in Procs : pc[p] = "sleep" /\ slept[p] < RETRY_DELAY_MS
  /\ slept' = [p \in Procs |->
                 IF pc[p] = "sleep"
                 THEN IF slept[p] + TickMs > RETRY_DELAY_MS
                      THEN RETRY_DELAY_MS ELSE slept[p] + TickMs
                 ELSE slept[p]]
  /\ UNCHANGED <<pc, call, result, asymmetricSignCalls, signSettlement,
                 getPublicKeyCalls, publicKeySettlements, sleeps>>

\* The caller takes the result, and the slot is free for the next invocation.
Return(p) ==
  /\ pc[p] = "done"
  /\ pc' = [pc EXCEPT ![p] = "idle"]
  /\ call' = [call EXCEPT ![p] = NoCall]
  /\ result' = [result EXCEPT ![p] = Undefined]
  /\ asymmetricSignCalls' = [asymmetricSignCalls EXCEPT ![p] = <<>>]
  /\ signSettlement' = [signSettlement EXCEPT ![p] = Undefined]
  /\ getPublicKeyCalls' = [getPublicKeyCalls EXCEPT ![p] = <<>>]
  /\ publicKeySettlements' = [publicKeySettlements EXCEPT ![p] = <<>>]
  /\ slept' = [slept EXCEPT ![p] = 0]
  /\ sleeps' = [sleeps EXCEPT ![p] = 0]

(***************************************************************************)
(* One caller at a time.                                                   *)
(***************************************************************************)
Callers == {1}

Next ==
  \/ \E p \in Callers, format \in KeyFormats, algorithm \in Algorithms, key \in Keys,
        data \in Plaintexts :
       \/ OnGenerateKey(p, format, algorithm, key, data)
       \/ OnImportKey(p, format, algorithm, key, data)
       \/ OnVerify(p, format, algorithm, key, data)
  \/ \E p \in Callers, algorithm \in Algorithms, key \in Keys, data \in Plaintexts :
       OnSign(p, algorithm, key, data)
  \/ \E p \in Callers, settlement \in SignSettlements : AsymmetricSignSettles(p, settlement)
  \/ \E p \in Callers, format \in KeyFormats, key \in Keys : OnExportKey(p, format, key)
  \/ \E p \in Callers, settlement \in PublicKeySettlements :
       \/ FirstAttemptSettles(p, settlement)
       \/ SecondAttemptSettles(p, settlement)
  \/ \E p \in Callers : SecondAttempt(p)
  \/ Tick
  \/ \E p \in Callers : Return(p)

Spec == Init /\ [][Next]_vars

(***************************************************************************)
(* Concurrent callers: every slot may hold an invocation, and the          *)
(* invocations interleave at their awaits.  The inputs are a few: two key  *)
(* handles, and for each remote call a good answer for either key, a       *)
(* "pending generation" error and another error.                           *)
(***************************************************************************)
ConcurrentKeys == {GcpKmsRsaPssPrivateKey(path, "SHA-256") : path \in KeyPaths}
ConcurrentAlgorithm == [name |-> "RSA-PSS", saltLength |-> 256 \div 8]

UnavailableError == Error("Error", "14 UNAVAILABLE", Undefined, Undefined)
PendingError ==
  Error("Error", "14 UNAVAILABLE", Undefined,
        Some(<<[violations |-> Some(<<PendingViolation>>)]>>))

\* The response of a remote service that signed with the key at path.
GoodSignResponse(path) ==
  [name |-> Some(path),
   verifiedDataCrc32c |-> Some(TRUE),
   signature |-> BufferFrom(<<200>>),
   signatureCrc32c |-> Some([value |-> Some(calculateCRC32C(<<200>>))])]

ConcurrentSignSettlements ==
  {Fulfilled(GoodSignResponse(path)) : path \in KeyPaths}
  \cup {Rejected(UnavailableError)}

ConcurrentPublicKeySettlements ==
  {Fulfilled([pem |-> Some("-----BEGIN PUBLIC KEY-----\nAAA=\n-----END PUBLIC KEY-----")]),
   Rejected(PendingError),
   Rejected(UnavailableError)}

NextConcurrent ==
  \/ \E p \in Procs, key \in ConcurrentKeys :
       \/ OnGenerateKey(p, "spki", ConcurrentAlgorithm, key, <<>>)
       \/ OnImportKey(p, "spki", ConcurrentAlgorithm, key, <<>>)
       \/ OnVerify(p, "spki", ConcurrentAlgorithm, key, <<>>)
       \/ OnSign(p, ConcurrentAlgorithm, key, <<>>)
       \/ OnExportKey(p, "spki", key)
  \/ \E p \in Procs, settlement \in ConcurrentSignSettlements :
       AsymmetricSignSettles(p, settlement)
  \/ \E p \in Procs, settlement \in ConcurrentPublicKeySettlements :
       \/ FirstAttemptSettles(p, settlement)
       \/ SecondAttemptSettles(p, settlement)
  \/ \E p \in Procs : SecondAttempt(p)
  \/ Tick
  \/ \E p \in Procs : Return(p)

\* Every remote call eventually settles, time passes while an invocation
\* sleeps, and the continuation of a settled promise is eventually run.
Fairness ==
  /\ \A p \in Procs :
       /\ WF_vars(\E settlement \in ConcurrentSignSettlements :
                    AsymmetricSignSettles(p, settlement))
       /\ WF_vars(\E settlement \in ConcurrentPublicKeySettlements :
                    FirstAttemptSettles(p, settlement))
       /\ WF_vars(\E settlement \in ConcurrentPublicKeySettlements :
                    SecondAttemptSettles(p, settlement))
       /\ WF_vars(SecondAttempt(p))
  /\ WF_vars(Tick)

SpecConcurrent == Init /\ [][NextConcurrent]_vars /\ Fairness

(***************************************************************************)
(* Properties.                                                             *)
(***************************************************************************)
Done(p) == pc[p] = "done"
Outcome(p) == ValueOf(result[p])
Succeeded(p) == Done(p) /\ IsFulfilled(Outcome(p))
Failed(p) == Done(p) /\ IsRejected(Outcome(p))
Returned(p) == ValueOf(Outcome(p).value)
Thrown(p) == ValueOf(Outcome(p).reason)
\* The invocation failed with a KmsError whose message begins with the text.
FailedWith(p, text) ==
  /\ Failed(p)
  /\ Thrown(p).name = "KmsError"
  /\ StartsWith(Thrown(p).message, text)

Signing(p) == call[p].op = "sign"
Exporting(p) == call[p].op = "exportKey"
RequestedPath(p) == call[p].key.kmsKeyVersionPath
RemoteCalls(p) == Len(asymmetricSignCalls[p]) + Len(getPublicKeyCalls[p])

\* The asymmetricSign call of p was answered by a response.
SignAnswered(p) ==
  /\ Signing(p)
  /\ IsDefined(signSettlement[p])
  /\ IsFulfilled(ValueOf(signSettlement[p]))
SignResponse(p) == ValueOf(ValueOf(signSettlement[p]).value)

\* The three conditions a response is trusted on.
PathEchoed(p) == SignResponse(p).name = RequestedPath(p)
FlagTrue(p) == SignResponse(p).verifiedDataCrc32c = Some(TRUE)
ChecksumReported(p) == IsDefined(SignResponse(p).signatureCrc32c)
ReportedChecksum(p) == Number(ValueOf(SignResponse(p).signatureCrc32c).value)
SignatureOf(p) == BufferBytes(SignResponse(p).signature)

\* C1: whenever sign returns a signature, the response it was taken from
\* echoed the requested key path, had the verified-checksum flag true, and
\* reported the checksum that its signature has.
C1_SignSafety ==
  \A p \in Procs :
    (Signing(p) /\ Succeeded(p)) =>
      /\ SignAnswered(p)
      /\ PathEchoed(p)
      /\ FlagTrue(p)
      /\ ChecksumReported(p)
      /\ calculateCRC32C(SignatureOf(p)) = ReportedChecksum(p)

C1_Witness ==
  \E p \in Procs :
    /\ Signing(p) /\ Succeeded(p)
    /\ SignResponse(p).signature.byteOffset > 0
    /\ Len(Returned(p)) > 0

\* C2: a sign call with a supported salt length (32 or 64) on a remote key
\* handle is passed to the remote service once, and when the response echoes
\* the key path, has the flag true and reports the checksum of its
\* signature, sign succeeds and returns exactly the octets of that signature.
C2_SignReturnsSignature ==
  \A p \in Procs :
    (/\ Signing(p)
     /\ call[p].key \in RemoteKeys
     /\ call[p].algorithm.saltLength \in {32, 64}) =>
      /\ Len(asymmetricSignCalls[p]) = 1
      /\ asymmetricSignCalls[p][1].name = RequestedPath(p)
      /\ BufferBytes(asymmetricSignCalls[p][1].data) = call[p].data
      /\ (/\ SignAnswered(p)
          /\ PathEchoed(p)
          /\ FlagTrue(p)
          /\ ChecksumReported(p)
          /\ ReportedChecksum(p) = calculateCRC32C(SignatureOf(p)))
         => (Succeeded(p) /\ Returned(p) = SignatureOf(p))

C2_Witness ==
  \E p \in Procs :
    /\ Signing(p) /\ Succeeded(p)
    /\ call[p].algorithm.saltLength = 64
    /\ SignResponse(p).signature.byteOffset > 0
    /\ Returned(p) = <<200>>

\* C3: a sign call with a salt length other than 32 and 64 fails, and
\* issues no asymmetricSign call.
C3_UnsupportedSaltLength ==
  \A p \in Procs :
    (Signing(p) /\ call[p].algorithm.saltLength \notin {32, 64}) =>
      /\ Failed(p)
      /\ Len(asymmetricSignCalls[p]) = 0
      /\ ~IsDefined(signSettlement[p])

C3_Witness ==
  \E p \in Procs :
    /\ Signing(p)
    /\ call[p].key \in RemoteKeys
    /\ call[p].algorithm.saltLength = 48
    /\ FailedWith(p, "Unsupported salt length of 48 octets")
    /\ RemoteCalls(p) = 0

\* C4: when the response echoes another key path than the requested one,
\* sign fails with "KMS used the wrong key version" and returns nothing.
C4_WrongKeyVersion ==
  \A p \in Procs :
    (SignAnswered(p) /\ ~PathEchoed(p)) =>
      FailedWith(p, "KMS used the wrong key version")

C4_Witness ==
  \E p \in Procs :
    /\ SignAnswered(p)
    /\ IsDefined(SignResponse(p).name)
    /\ ~PathEchoed(p)
    /\ FlagTrue(p)
    /\ ChecksumReported(p)
    /\ ReportedChecksum(p) = calculateCRC32C(SignatureOf(p))
    /\ FailedWith(p, "KMS used the wrong key version")

\* C5 as stated: when the verified-checksum flag of the response is false,
\* sign fails with "KMS failed to verify plaintext CRC32C checksum".
C5_Original ==
  \A p \in Procs :
    (SignAnswered(p) /\ SignResponse(p).verifiedDataCrc32c = Some(FALSE)) =>
      FailedWith(p, "KMS failed to verify plaintext CRC32C checksum")

\* C5: when the response echoes the requested key path and its
\* verified-checksum flag is false, sign fails with "KMS failed to verify
\* plaintext CRC32C checksum" and returns nothing.
C5_PlaintextUnverified ==
  \A p \in Procs :
    (/\ SignAnswered(p)
     /\ PathEchoed(p)
     /\ SignResponse(p).verifiedDataCrc32c = Some(FALSE)) =>
      FailedWith(p, "KMS failed to verify plaintext CRC32C checksum")

C5_Witness ==
  \E p \in Procs :
    /\ SignAnswered(p)
    /\ PathEchoed(p)
    /\ SignResponse(p).verifiedDataCrc32c = Some(FALSE)
    /\ ChecksumReported(p)
    /\ ReportedChecksum(p) = calculateCRC32C(SignatureOf(p))
    /\ FailedWith(p, "KMS failed to verify plaintext CRC32C checksum")

\* C6 as stated: when the checksum the response reports for the signature
\* is not the checksum of the signature, sign fails with "Signature CRC32C
\* checksum does not match one received from KMS".
C6_Original ==
  \A p \in Procs :
    (/\ SignAnswered(p)
     /\ ChecksumReported(p)
     /\ ReportedChecksum(p) # calculateCRC32C(SignatureOf(p))) =>
      FailedWith(p, "Signature CRC32C checksum does not match one received from KMS")

\* C6: when the response echoes the requested key path, has the
\* verified-checksum flag true and reports for the signature a checksum
\* that is not the checksum of the signature, sign fails with "Signature
\* CRC32C checksum does not match one received from KMS" and returns nothing.
C6_SignatureChecksumMismatch ==
  \A p \in Procs :
    (/\ SignAnswered(p)
     /\ PathEchoed(p)
     /\ FlagTrue(p)
     /\ ChecksumReported(p)
     /\ ReportedChecksum(p) # calculateCRC32C(SignatureOf(p))) =>
      FailedWith(p, "Signature CRC32C checksum does not match one received from KMS")

C6_Witness ==
  \E p \in Procs :
    /\ SignAnswered(p)
    /\ PathEchoed(p)
    /\ FlagTrue(p)
    /\ ChecksumReported(p)
    /\ ReportedChecksum(p) = calculateCRC32C(<<1>>)
    /\ SignatureOf(p) = <<200>>
    /\ FailedWith(p, "Signature CRC32C checksum does not match one received from KMS")

\* The error is one the first attempt takes for "pending generation": every
\* detail of its structured detail list has a violation list, and one of
\* them has a violation of type KEY_PENDING_GENERATION.
PendingGeneration(err) ==
  LET details == IF IsDefined(err.statusDetails) THEN ValueOf(err.statusDetails) ELSE <<>>
  IN /\ \A i \in DOMAIN details : IsDefined(details[i].violations)
     /\ \E i \in DOMAIN details :
          \E j \in DOMAIN ValueOf(details[i].violations) :
            ValueOf(details[i].violations)[j].type = "KEY_PENDING_GENERATION"

Attempts(p) == Len(getPublicKeyCalls[p])
Answers(p) == Len(publicKeySettlements[p])
\* The first getPublicKey call of p failed with a "pending generation" error.
FirstAttemptPending(p) ==
  /\ Exporting(p)
  /\ Answers(p) >= 1
  /\ IsRejected(publicKeySettlements[p][1])
  /\ PendingGeneration(ValueOf(publicKeySettlements[p][1].reason))
\* The first getPublicKey call of p failed with another error.
FirstAttemptBroken(p) ==
  /\ Exporting(p)
  /\ Answers(p) >= 1
  /\ IsRejected(publicKeySettlements[p][1])
  /\ ~PendingGeneration(ValueOf(publicKeySettlements[p][1].reason))
\* The getPublicKey call answered n-th returned a PEM text.
ReturnedPem(p, n) ==
  /\ Answers(p) >= n
  /\ IsFulfilled(publicKeySettlements[p][n])
  /\ IsDefined(ValueOf(publicKeySettlements[p][n].value).pem)

\* C7: an export issues at most two getPublicKey calls, and a second one
\* only after a first one failed as "pending generation" and the delay of
\* 500 ms has elapsed; after such a first failure the export sleeps, makes
\* exactly one more call, succeeds if that call returns a PEM and fails if
\* that call fails.
C7_RetryOnceAfterDelay ==
  \A p \in Procs :
    Exporting(p) =>
      /\ Attempts(p) <= 2
      /\ Attempts(p) = 2 => (FirstAttemptPending(p) /\ slept[p] >= 500)
      /\ FirstAttemptPending(p) =>
           /\ pc[p] \in {"sleep", "getPublicKey2", "done"}
           /\ pc[p] = "sleep" => (Attempts(p) = 1 /\ Answers(p) = 1)
           /\ pc[p] = "getPublicKey2" => (Attempts(p) = 2 /\ Answers(p) = 1)
           /\ Done(p) => /\ Attempts(p) = 2
                         /\ Answers(p) = 2
                         /\ ReturnedPem(p, 2) => Succeeded(p)
                         /\ IsRejected(publicKeySettlements[p][2]) => Failed(p)

C7_Witness ==
  \E p \in Procs :
    /\ FirstAttemptPending(p)
    /\ Attempts(p) = 2
    /\ ReturnedPem(p, 2)
    /\ Succeeded(p)
    /\ slept[p] >= 500

\* A second consecutive "pending generation" failure is reached, and ends
\* the export.
C7_WitnessSecondFailure ==
  \E p \in Procs :
    /\ FirstAttemptPending(p)
    /\ Answers(p) = 2
    /\ IsRejected(publicKeySettlements[p][2])
    /\ PendingGeneration(ValueOf(publicKeySettlements[p][2].reason))
    /\ Failed(p)

\* C8: when the first getPublicKey call fails with an error that is not
\* "pending generation", export fails with "Failed to retrieve public key",
\* having made that one call and slept not at all.
C8_OtherFailureIsTerminal ==
  \A p \in Procs :
    FirstAttemptBroken(p) =>
      /\ FailedWith(p, "Failed to retrieve public key")
      /\ Attempts(p) = 1
      /\ Answers(p) = 1
      /\ slept[p] = 0

C8_Witness ==
  \E p \in Procs :
    /\ FirstAttemptBroken(p)
    /\ Len(StatusDetailsOf(ValueOf(publicKeySettlements[p][1].reason))) > 0
    /\ FailedWith(p, "Failed to retrieve public key")
    /\ Attempts(p) = 1

\* C9: generate, import and verify fail whatever they are passed, and
\* issue no call to the remote service.
C9_UnsupportedOperations ==
  \A p \in Procs :
    call[p].op \in {"generateKey", "importKey", "verify"} =>
      /\ Failed(p)
      /\ RemoteCalls(p) = 0

C9_Witness ==
  \E p \in Procs :
    /\ call[p].op = "verify"
    /\ call[p].key \in RemoteKeys
    /\ FailedWith(p, "Signature verification is unsupported")
    /\ RemoteCalls(p) = 0

\* C10: an export with a format other than "spki" fails, and issues no
\* getPublicKey call, whatever the key is.
C10_ExportFormat ==
  \A p \in Procs :
    (Exporting(p) /\ call[p].format # "spki") =>
      /\ Failed(p)
      /\ Attempts(p) = 0
      /\ Answers(p) = 0

C10_Witness ==
  \E p \in Procs :
    /\ Exporting(p)
    /\ call[p].format = "jwk"
    /\ call[p].key \in RemoteKeys
    /\ FailedWith(p, "Private key cannot be exported")
    /\ Attempts(p) = 0

\* C11: sign and export with a key that is no GcpKmsRsaPssPrivateKey fail
\* and issue no remote call (sign with "Cannot sign with key of unsupported
\* type", export of the spki format with "Key is not managed by KMS"), and
\* an invocation that issued a remote call has a GcpKmsRsaPssPrivateKey.
C11_KeyMustBeRemoteHandle ==
  \A p \in Procs :
    /\ ((Signing(p) \/ Exporting(p)) /\ call[p].key.constructor # "GcpKmsRsaPssPrivateKey") =>
         /\ Failed(p)
         /\ RemoteCalls(p) = 0
         /\ Signing(p) => FailedWith(p, "Cannot sign with key of unsupported type")
         /\ (Exporting(p) /\ call[p].format = "spki") =>
              FailedWith(p, "Key is not managed by KMS")
    /\ RemoteCalls(p) > 0 => call[p].key.constructor = "GcpKmsRsaPssPrivateKey"

C11_Witness ==
  \E p \in Procs :
    /\ Exporting(p)
    /\ call[p].format = "spki"
    /\ call[p].key.constructor = "Object"
    /\ IsDefined(call[p].key.kmsKeyVersionPath)
    /\ FailedWith(p, "Key is not managed by KMS")
    /\ RemoteCalls(p) = 0

\* C12: a sign invocation whose key handle names a hash algorithm other
\* than SHA-256 and SHA-512 fails, and issues no asymmetricSign call.
C12_OtherHashRejected ==
  \A p \in Procs :
    (/\ Signing(p)
     /\ call[p].key.constructor = "GcpKmsRsaPssPrivateKey"
     /\ call[p].key.hashingAlgorithm \notin {"SHA-256", "SHA-512"}) =>
      /\ Failed(p)
      /\ Len(asymmetricSignCalls[p]) = 0

\* The digest size of a hash algorithm, in octets.
DigestOctets(hash) ==
  CASE hash = "SHA-256" -> 32
    [] hash = "SHA-384" -> 48
    [] hash = "SHA-512" -> 64

\* C13: a sign invocation on a key handle whose salt length is not the
\* digest size of the hash algorithm of the handle (32 for a 256-bit hash,
\* 64 for a 512-bit hash) fails, and issues no asymmetricSign call.
C13_SaltLengthTiedToHash ==
  \A p \in Procs :
    (/\ Signing(p)
     /\ call[p].key.constructor = "GcpKmsRsaPssPrivateKey"
     /\ call[p].algorithm.saltLength # DigestOctets(call[p].key.hashingAlgorithm)) =>
      /\ Failed(p)
      /\ Len(asymmetricSignCalls[p]) = 0

\* The asymmetricSign call of p was rejected.
SignRejected(p) ==
  /\ Signing(p)
  /\ IsDefined(signSettlement[p])
  /\ IsRejected(ValueOf(signSettlement[p]))

\* C14: when the asymmetricSign call is rejected, sign fails with a KmsError
\* "KMS signature request failed" whose cause is what the call was rejected
\* with, and returns no signature.
C14_SignRequestFailure ==
  \A p \in Procs :
    SignRejected(p) =>
      /\ FailedWith(p, "KMS signature request failed")
      /\ Thrown(p).cause = ValueOf(signSettlement[p]).reason

C14_Witness ==
  \E p \in Procs :
    /\ SignRejected(p)
    /\ Len(asymmetricSignCalls[p]) = 1
    /\ FailedWith(p, "KMS signature request failed")
    /\ IsDefined(Thrown(p).cause)
    /\ ValueOf(Thrown(p).cause).name = "Error"

\* C15: every invocation that fails, fails with a KmsError.
C15_SingleErrorKind ==
  \A p \in Procs : Failed(p) => Thrown(p).name = "KmsError"

\* The outcome of the invocation of p run alone: what its own inputs and the
\* settlements of its own remote calls give.
AloneOutcome(p) ==
  IF Signing(p)
  THEN IF IsDefined(onSignValidation(call[p].algorithm, call[p].key))
       THEN Rejected(ValueOf(onSignValidation(call[p].algorithm, call[p].key)))
       ELSE kmsSign(ValueOf(signSettlement[p]), call[p].key)
  ELSE IF IsDefined(onExportKeyValidation(call[p].format, call[p].key))
       THEN Rejected(ValueOf(onExportKeyValidation(call[p].format, call[p].key)))
       ELSE LET first == publicKeySettlements[p][1]
            IN IF IsFulfilled(first)
               THEN publicKeyResult(retrievedPem(first))
               ELSE IF RetryAfter(ValueOf(first.reason))
               THEN publicKeyResult(retrievedPem(publicKeySettlements[p][2]))
               ELSE publicKeyResult(firstAttemptError(ValueOf(first.reason)))

\* What belongs to the invocation of p.
Own(p) ==
  <<pc[p], call[p], result[p], asymmetricSignCalls[p], signSettlement[p],
    getPublicKeyCalls[p], publicKeySettlements[p], sleeps[p]>>

\* A step of an invocation leaves what belongs to the others as it was.
OneInvocationSteps ==
  \A p, q \in Procs : (p # q /\ Own(p)' # Own(p)) => Own(q)' = Own(q)

\* Every remote request of p names the key of p.
OwnRequests(p) ==
  /\ \A i \in DOMAIN asymmetricSignCalls[p] :
       asymmetricSignCalls[p][i].name = RequestedPath(p)
  /\ \A i \in DOMAIN getPublicKeyCalls[p] :
       getPublicKeyCalls[p][i].name = RequestedPath(p)

\* C16: whatever the interleaving of concurrent sign and export invocations,
\* each one ends with the outcome it has when run alone with the same inputs
\* and the same remote responses, its requests name its own key, and no step
\* of one invocation changes what belongs to another.
C16_Independence ==
  /\ [](\A p \in Procs :
          /\ OwnRequests(p)
          /\ (Done(p) /\ (Signing(p) \/ Exporting(p))) => Outcome(p) = AloneOutcome(p))
  /\ [][OneInvocationSteps]_vars

\* A signature returned for one key while an export of the other key, begun
\* before it, is at its second attempt.
C16_Witness ==
  \E p, q \in Procs :
    /\ Signing(p) /\ Succeeded(p)
    /\ Exporting(q) /\ pc[q] = "getPublicKey2"
    /\ RequestedPath(p) # RequestedPath(q)

\* The invocation of p waits for a remote call or for its sleep.
InFlight(p) == pc[p] \in {"asymmetricSign", "getPublicKey1", "sleep", "getPublicKey2"}

\* The invocation of p has ended with a value or with an error, no more.
Completed(p) ==
  /\ Done(p)
  /\ IsDefined(result[p])
  /\ IsFulfilled(Outcome(p)) # IsRejected(Outcome(p))

\* C17: every sign and export invocation eventually completes, with a
\* success or with a failure, when its remote calls and its delay return;
\* a sign invocation issues at most one asymmetricSign call, and an export
\* invocation at most two getPublicKey calls and at most one delay.
C17_TerminationAndResources ==
  /\ [](\A p \in Procs :
          /\ Len(asymmetricSignCalls[p]) <= 1
          /\ Len(getPublicKeyCalls[p]) <= 2
          /\ sleeps[p] <= 1
          /\ Signing(p) => Len(getPublicKeyCalls[p]) = 0 /\ sleeps[p] = 0
          /\ Exporting(p) => Len(asymmetricSignCalls[p]) = 0)
  /\ \A p \in Procs : InFlight(p) ~> Completed(p)

\* An export completed after two getPublicKey calls and one delay, beside a
\* sign completed with an integrity failure after its one call.
C17_Witness ==
  \E p, q \in Procs :
    /\ Exporting(p) /\ Completed(p)
    /\ Len(getPublicKeyCalls[p]) = 2 /\ sleeps[p] = 1
    /\ Signing(q) /\ Completed(q)
    /\ FailedWith(q, "KMS used the wrong key version")
    /\ Len(asymmetricSignCalls[q]) = 1

\* The detail list of err has a detail with a violation of the type
\* KEY_PENDING_GENERATION.
HasPendingViolation(err) ==
  /\ IsDefined(err.statusDetails)
  /\ \E i \in DOMAIN ValueOf(err.statusDetails) :
       LET detail == ValueOf(err.statusDetails)[i]
       IN /\ IsDefined(detail.violations)
          /\ \E j \in DOMAIN ValueOf(detail.violations) :
               ValueOf(detail.violations)[j].type = "KEY_PENDING_GENERATION"

\* C18: an export whose first getPublicKey call failed goes on to the delay
\* and the second attempt exactly when the detail list of the error has a
\* detail with a violation of the type KEY_PENDING_GENERATION.
C18_PendingClassification ==
  \A p \in Procs :
    (/\ Exporting(p)
     /\ Answers(p) >= 1
     /\ IsRejected(publicKeySettlements[p][1])) =>
      (sleeps[p] = 1 <=> HasPendingViolation(ValueOf(publicKeySettlements[p][1].reason)))

\* The PEM text the last answered getPublicKey call of p returned.
LastPem(p) == ValueOf(ValueOf(publicKeySettlements[p][Answers(p)].value).pem)

\* The base64 body of a PEM text: what is left of it without its header,
\* its footer and its newlines.
Base64Body(pem) ==
  CASE pem = "-----BEGIN PUBLIC KEY-----\nAAA=\n-----END PUBLIC KEY-----" -> "AAA="
    [] pem = "-----BEGIN PUBLIC KEY-----\nAQID\nyMg=\n-----END PUBLIC KEY-----" -> "AQIDyMg="

\* The octets a base64 text stands for.
Base64Decoding(body) ==
  CASE body = "AAA=" -> <<0, 0>>
    [] body = "AQIDyMg=" -> <<1, 2, 3, 200, 200>>

\* C19: an export succeeds exactly when the last getPublicKey call answered
\* returned a PEM text, and then returns the base64 decoding of the body of
\* that text, its header, footer and newlines removed: for the PEM
\* "-----BEGIN PUBLIC KEY-----\nAAA=\n-----END PUBLIC KEY-----", the direct
\* base64 decoding of "AAA=".
C19_PemDecoding ==
  \A p \in Procs :
    (Exporting(p) /\ Done(p)) =>
      /\ Succeeded(p) <=> (Answers(p) >= 1 /\ ReturnedPem(p, Answers(p)))
      /\ Succeeded(p) =>
           /\ Returned(p) = Base64Decoding(Base64Body(LastPem(p)))
           /\ Base64Body(LastPem(p)) = "AAA=" =>
                Returned(p) = bufferToArrayBuffer(BufferFromBase64("AAA="))

\* After a retry, the decoding of the two-line PEM of the second attempt.
C19_Witness ==
  \E p \in Procs :
    /\ Exporting(p) /\ Succeeded(p)
    /\ Answers(p) = 2
    /\ IsRejected(publicKeySettlements[p][1])
    /\ Base64Body(LastPem(p)) = "AQIDyMg="
    /\ Returned(p) = <<1, 2, 3, 200, 200>>

\* The decoding of the PEM of the specification's example, at the first
\* attempt.
C19_WitnessExample ==
  \E p \in Procs :
    /\ Exporting(p) /\ Succeeded(p)
    /\ Answers(p) = 1
    /\ Base64Body(LastPem(p)) = "AAA="
    /\ Returned(p) = <<0, 0>>

\* The response of p fails the signature checksum check.
ChecksumWrong(p) ==
  /\ ChecksumReported(p)
  /\ ReportedChecksum(p) # calculateCRC32C(SignatureOf(p))

\* C20: the three checks of sign are made in the order key path, verified-
\* checksum flag, signature checksum, and the first that fails is the one
\* reported: a response with another key path is reported as "wrong key
\* version" whatever its flag and checksum, one with the requested path and
\* a false flag as the plaintext checksum failure whatever its checksum, and
\* the signature checksum mismatch is reported only for a response with the
\* requested path and a true flag.
C20_CheckOrder ==
  \A p \in Procs :
    SignAnswered(p) =>
      /\ ~PathEchoed(p) => FailedWith(p, "KMS used the wrong key version")
      /\ (PathEchoed(p) /\ SignResponse(p).verifiedDataCrc32c = Some(FALSE)) =>
           FailedWith(p, "KMS failed to verify plaintext CRC32C checksum")
      /\ (PathEchoed(p) /\ FlagTrue(p) /\ ChecksumWrong(p)) =>
           FailedWith(p, "Signature CRC32C checksum does not match one received from KMS")
      /\ FailedWith(p, "Signature CRC32C checksum does not match one received from KMS") =>
           (PathEchoed(p) /\ FlagTrue(p))

\* A response that fails the three checks at once, reported as a wrong key
\* version.
C20_Witness ==
  \E p \in Procs :
    /\ SignAnswered(p)
    /\ IsDefined(SignResponse(p).name) /\ ~PathEchoed(p)
    /\ SignResponse(p).verifiedDataCrc32c = Some(FALSE)
    /\ ChecksumWrong(p)
    /\ FailedWith(p, "KMS used the wrong key version")

\* A response with the requested path that fails the two other checks,
\* reported as the plaintext checksum failure.
C20_WitnessFlag ==
  \E p \in Procs :
    /\ SignAnswered(p)
    /\ PathEchoed(p)
    /\ SignResponse(p).verifiedDataCrc32c = Some(FALSE)
    /\ ChecksumWrong(p)
    /\ FailedWith(p, "KMS failed to verify plaintext CRC32C checksum")

====
